---------------------------- MODULE Spec2Model ----------------------------
(***************************************************************************)
(* Contractor Smart Site API (src/main.py, src/schemas.py).                *)
(*                                                                         *)
(* Three POST endpoints are modelled: /api/calculate (a pure revenue       *)
(* calculator), /api/lead and /api/demo (validate, insert one document     *)
(* through the persistence gateway, answer).  Every request is a process   *)
(* of its own; the gateway's store is the only state requests share.       *)
(*                                                                         *)
(* Numbers.  Rates are whole percents and lifetime values whole dollars.   *)
(* The calculator's exact quantities are held as counts of 1/10000         *)
(* (Percent * Percent) and its rounded outputs as counts of 1/100.         *)
(* Revenue reaches 10^14 such units, beyond TLC's integers, so amounts are *)
(* two-limb numbers [hi, lo] of value hi * Base + lo with 0 <= lo < Base.  *)
(* Python's round(x, 2) acts on a binary float: when the exact value lies  *)
(* halfway between two hundredths the float may sit on either side, so a   *)
(* tie rounds to either neighbour.                                        *)
(***************************************************************************)
EXTENDS Integers, Sequences, FiniteSets, TLC

VARIABLES
    pc,           \* per request: where its processing stands
    endpoint,     \* per request: "calculate", "lead", "demo" ("none" before arrival)
    body,         \* per request: the JSON payload
    ret,          \* per request: what create_document returned or raised
    transcript,   \* per request: create_demo's local transcript list
    resp,         \* per request: the HTTP response
    store,        \* the gateway's collections, each a sequence of documents
    nextId,       \* the gateway's identifier generator
    insertCalls,  \* per request: number of create_document calls made (history)
    calcRuns      \* per request: number of calculate_revenue runs (history)

vars == <<pc, endpoint, body, ret, transcript, resp, store, nextId,
          insertCalls, calcRuns>>

---------------------------------------------------------------------------
(* Bounds of the model *)

\* Number of requests in flight together.
MaxReq == 2

\* monthly_inquiries ranges over 0..InqSpan besides the boundary values.
InqSpan == 3

\* lifetime_value ranges over 0..LtvSpan besides the boundary values.
LtvSpan == 3

(* Program constants *)

MaxInquiries == 10000
MaxRate == 100
MaxLifetimeValue == 1000000
Percent == 100
ConnBoost == 20
ConnCap == 95
CloseBoost == 5
CloseCap == 85
Decimals == 2

Reqs == 1..MaxReq

\* Optional values: None is the absent or null field, Some(v) a present one.
None == <<>>
Some(v) == <<v>>
IsNone(o) == o = <<>>
Val(o) == o[1]

Min(a, b) == IF a <= b THEN a ELSE b

---------------------------------------------------------------------------
(* Two-limb arithmetic *)

Limb == 100 * 100
Base == Limb * Limb

BigNorm(h, l) == [hi |-> h + (l \div Base), lo |-> l % Base]
Big(n) == BigNorm(0, n)
BigAdd(a, b) == BigNorm(a.hi + b.hi, a.lo + b.lo)
BigSub(a, b) == BigNorm(a.hi - b.hi, a.lo - b.lo)
BigLeq(a, b) == \/ a.hi < b.hi
                \/ a.hi = b.hi /\ a.lo <= b.lo

\* a * v for 0 <= a < Base * Limb, 0 <= v < Base
BigMul(a, v) ==
    LET a1 == a \div Limb
        a0 == a % Limb
        v1 == v \div Limb
        v0 == v % Limb
        mid == a1 * v0 + a0 * v1
    IN  BigNorm(a1 * v1 + (mid \div Limb), (mid % Limb) * Limb + a0 * v0)

---------------------------------------------------------------------------
(* Validation layer: the pydantic models *)

\* ValidCalcInput with lifetime_value bounded by ge=0 in place of gt=0.
ValidCalcInput_ge0(b) ==
    /\ ~IsNone(b.monthly_inquiries)
    /\ Val(b.monthly_inquiries) >= 0
    /\ Val(b.monthly_inquiries) <= MaxInquiries
    /\ ~IsNone(b.connection_rate)
    /\ Val(b.connection_rate) >= 0
    /\ Val(b.connection_rate) <= MaxRate
    /\ ~IsNone(b.close_rate)
    /\ Val(b.close_rate) >= 0
    /\ Val(b.close_rate) <= MaxRate
    /\ ~IsNone(b.lifetime_value)
    /\ Val(b.lifetime_value) >= 0
    /\ Val(b.lifetime_value) <= MaxLifetimeValue

\* CalcInput: conint(ge=0, le=10000), confloat(ge=0, le=100) twice,
\* confloat(gt=0, le=1000000); every field required (Field(...)).
ValidCalcInput(b) ==
    /\ ~IsNone(b.monthly_inquiries)
    /\ Val(b.monthly_inquiries) >= 0
    /\ Val(b.monthly_inquiries) <= MaxInquiries
    /\ ~IsNone(b.connection_rate)
    /\ Val(b.connection_rate) >= 0
    /\ Val(b.connection_rate) <= MaxRate
    /\ ~IsNone(b.close_rate)
    /\ Val(b.close_rate) >= 0
    /\ Val(b.close_rate) <= MaxRate
    /\ ~IsNone(b.lifetime_value)
    /\ Val(b.lifetime_value) > 0
    /\ Val(b.lifetime_value) <= MaxLifetimeValue

\* EmailStr: an address is a sequence of characters local@domain, the local
\* part non-empty, one "@", the domain holding a dot with text on both sides.
IsEmail(s) ==
    \E p \in 2..(Len(s) - 3) :
        /\ s[p] = "@"
        /\ \A i \in 1..Len(s) : s[i] = "@" => i = p
        /\ \E d \in (p + 2)..(Len(s) - 1) : s[d] = "."

\* Lead: name, phone, source are required str; email is Optional[EmailStr];
\* notes and industry are Optional[str].
ValidLead(b) ==
    /\ ~IsNone(b.name)
    /\ ~IsNone(b.phone)
    /\ IsNone(b.email) \/ IsEmail(Val(b.email))
    /\ ~IsNone(b.source)

\* DemoRequest: name and phone are required str; sample_intent Optional[str].
ValidDemoRequest(b) ==
    /\ ~IsNone(b.name)
    /\ ~IsNone(b.phone)

ValidBody(e, b) ==
    CASE e = "calculate" -> ValidCalcInput(b)
      [] e = "lead"      -> ValidLead(b)
      [] e = "demo"      -> ValidDemoRequest(b)

---------------------------------------------------------------------------
(* Revenue calculator: calculate_revenue *)

\* One exact unit is 1/(Percent * Percent); one rounded unit is 1/10^Decimals.
RoundDiv == (Percent * Percent) \div (10 ^ Decimals)

smart_conn_rate(b) == Min(ConnCap, Val(b.connection_rate) + ConnBoost)
smart_close_rate(b) == Min(CloseCap, Val(b.close_rate) + CloseBoost)

\* monthly_inquiries * (connection_rate / 100), in exact units
curr_conn(b) == Big(Val(b.monthly_inquiries) * Val(b.connection_rate) * Percent)
\* curr_conn * (close_rate / 100)
CurrCloseUnits(b) ==
    Val(b.monthly_inquiries) * Val(b.connection_rate) * Val(b.close_rate)
curr_close(b) == Big(CurrCloseUnits(b))
\* curr_close * lifetime_value
curr_rev(b) == BigMul(CurrCloseUnits(b), Val(b.lifetime_value))

smart_conn(b) == Big(Val(b.monthly_inquiries) * smart_conn_rate(b) * Percent)
SmartCloseUnits(b) ==
    Val(b.monthly_inquiries) * smart_conn_rate(b) * smart_close_rate(b)
smart_close(b) == Big(SmartCloseUnits(b))
smart_rev(b) == BigMul(SmartCloseUnits(b), Val(b.lifetime_value))

\* lift taken against the closed deals in place of the current revenue.
lift_from_close(b) == BigSub(smart_rev(b), curr_close(b))

\* smart_rev - curr_rev, the argument of the last round
lift(b) == BigSub(smart_rev(b), curr_rev(b))

\* round(x, 2): the hundredths nearest to x; both neighbours on a tie.
Round2(x) ==
    LET down == BigNorm(x.hi \div RoundDiv,
                        (x.hi % RoundDiv) * (Base \div RoundDiv)
                            + (x.lo \div RoundDiv))
        up   == BigAdd(down, Big(1))
        rem  == x.lo % RoundDiv
    IN  IF 2 * rem < RoundDiv THEN {down}
        ELSE IF 2 * rem > RoundDiv THEN {up}
        ELSE {down, up}

\* Every CalcResult calculate_revenue can return for a validated body.  When
\* the smart rates equal the input rates the smart quantities are the same
\* floats as the current ones, so they round alike.
CalcResults(b) ==
    LET same == /\ smart_conn_rate(b) = Val(b.connection_rate)
                /\ smart_close_rate(b) = Val(b.close_rate)
    IN  { res \in
            { [ current_connected |-> cc, current_closed |-> cl,
                current_revenue |-> cr, smart_connected |-> sc,
                smart_closed |-> sl, smart_revenue |-> sr,
                lift_revenue |-> lr,
                assumptions |->
                    [ smart_connection_rate |-> smart_conn_rate(b),
                      smart_close_rate |-> smart_close_rate(b) ] ] :
                cc \in Round2(curr_conn(b)), cl \in Round2(curr_close(b)),
                cr \in Round2(curr_rev(b)), sc \in Round2(smart_conn(b)),
                sl \in Round2(smart_close(b)), sr \in Round2(smart_rev(b)),
                lr \in Round2(lift(b)) } :
            same => /\ res.current_connected = res.smart_connected
                    /\ res.current_closed = res.smart_closed
                    /\ res.current_revenue = res.smart_revenue }

---------------------------------------------------------------------------
(* Demo transcript: the list built in create_demo *)

\* FirstTurnText falling back on None only (`is None` in place of `or`).
FirstTurnText_none_only(b) ==
    IF IsNone(b.sample_intent)
    THEN "Hi! I'm looking for a quote."
    ELSE Val(b.sample_intent)

\* Python's `req.sample_intent or "Hi! ..."`: None and "" are both falsy.
FirstTurnText(b) ==
    IF IsNone(b.sample_intent) \/ Val(b.sample_intent) = ""
    THEN "Hi! I'm looking for a quote."
    ELSE Val(b.sample_intent)

DemoTranscript(b) ==
    << [role |-> "visitor", text |-> FirstTurnText(b)],
       [role |-> "ai", text |-> "You're in the right place! I can help with that. May I have your address and a good time for an estimate?"],
       [role |-> "visitor", text |-> "Tomorrow afternoon works. 123 Main St."],
       [role |-> "ai", text |-> "Great. I've penciled you in for 2:30 PM. You'll get a confirmation by text. Anything else I can answer now?"] >>

---------------------------------------------------------------------------
(* Payloads the clients send *)

GoodEmail == <<"a", "@", "b", ".", "c", "o">>
BadEmail  == <<"n", "o", "t", "-", "a", "n", "-", "e", "m", "a", "i", "l">>

LeadBase ==
    [name |-> Some("Ann"), phone |-> Some("555"), email |-> None,
     source |-> Some("demo"), notes |-> None, industry |-> None]

\* The accepted example and one-field departures from it.
LeadBodies ==
    { LeadBase,
      [LeadBase EXCEPT !.email = Some(GoodEmail)],
      [LeadBase EXCEPT !.email = Some(BadEmail)],
      [LeadBase EXCEPT !.name = Some("")],
      [LeadBase EXCEPT !.phone = Some("")],
      [LeadBase EXCEPT !.source = Some("")],
      [LeadBase EXCEPT !.name = None],
      [LeadBase EXCEPT !.source = None] }

DemoBase == [name |-> Some("Bob"), phone |-> Some("777"), sample_intent |-> None]

DemoBodies ==
    { DemoBase,
      [DemoBase EXCEPT !.sample_intent = Some("")],
      [DemoBase EXCEPT !.sample_intent = Some("roofing quote")],
      [DemoBase EXCEPT !.name = Some("")],
      [DemoBase EXCEPT !.phone = Some("")],
      [DemoBase EXCEPT !.phone = None] }

CalcBody(n, c, k, v) ==
    [monthly_inquiries |-> n, connection_rate |-> c, close_rate |-> k,
     lifetime_value |-> v]

\* The calculator payloads sent beside lead and demo traffic.
CalcBodiesSmall ==
    { CalcBody(Some(100), Some(50), Some(20), Some(1000)),
      CalcBody(Some(1), Some(50), Some(1), Some(1)),
      CalcBody(Some(-1), Some(50), Some(20), Some(1000)) }

\* The calculator payloads of the calculator's own specification: every
\* field absent, or taken around each threshold of the validation bounds
\* and of the two caps.
InquiryValues ==
    {-1} \cup (0..InqSpan) \cup {Percent, MaxInquiries, MaxInquiries + 1}
ConnRateValues ==
    { t + d : t \in {0, ConnCap - ConnBoost, ConnCap, MaxRate}, d \in {-1, 0, 1} }
        \cup {Percent \div 2}
CloseRateValues ==
    { t + d : t \in {0, CloseCap - CloseBoost, CloseCap, MaxRate}, d \in {-1, 0, 1} }
        \cup {CloseBoost * 4}
LifetimeValues ==
    (0..LtvSpan) \cup {10 * Percent, MaxLifetimeValue, MaxLifetimeValue + 1}

Opt(S) == {None} \cup { Some(x) : x \in S }

CalcBodies ==
    { CalcBody(n, c, k, v) :
        n \in Opt(InquiryValues), c \in Opt(ConnRateValues),
        k \in Opt(CloseRateValues), v \in Opt(LifetimeValues) }

Bodies(e) ==
    CASE e = "calculate" -> CalcBodiesSmall
      [] e = "lead"      -> LeadBodies
      [] e = "demo"      -> DemoBodies

---------------------------------------------------------------------------
(* State *)

NoBody == [none |-> TRUE]
NoRet == [kind |-> "none", id |-> 0]
NoResp == [code |-> 0, status |-> "", id |-> None, transcript |-> None,
           result |-> None]

Collection(e) == IF e = "lead" THEN "lead" ELSE "demorequest"

Init ==
    /\ pc = [r \in Reqs |-> "idle"]
    /\ endpoint = [r \in Reqs |-> "none"]
    /\ body = [r \in Reqs |-> NoBody]
    /\ ret = [r \in Reqs |-> NoRet]
    /\ transcript = [r \in Reqs |-> <<>>]
    /\ resp = [r \in Reqs |-> NoResp]
    /\ store = [lead |-> <<>>, demorequest |-> <<>>]
    /\ nextId = 1
    /\ insertCalls = [r \in Reqs |-> 0]
    /\ calcRuns = [r \in Reqs |-> 0]

\* One calculator request, already received.
InitCalc ==
    /\ pc = [r \in Reqs |-> IF r = 1 THEN "received" ELSE "idle"]
    /\ endpoint = [r \in Reqs |-> IF r = 1 THEN "calculate" ELSE "none"]
    /\ \E b \in CalcBodies : body = [r \in Reqs |-> IF r = 1 THEN b ELSE NoBody]
    /\ ret = [r \in Reqs |-> NoRet]
    /\ transcript = [r \in Reqs |-> <<>>]
    /\ resp = [r \in Reqs |-> NoResp]
    /\ store = [lead |-> <<>>, demorequest |-> <<>>]
    /\ nextId = 1
    /\ insertCalls = [r \in Reqs |-> 0]
    /\ calcRuns = [r \in Reqs |-> 0]

---------------------------------------------------------------------------
(* Persistence gateway: database.create_document *)

\* insert(collectionName, record) -> identifier: the document is stored and
\* its generated identifier returned, or a store error is raised and
\* nothing is stored.
create_document(coll, doc, r) ==
    \/ /\ store' = [store EXCEPT ![coll] =
                        Append(@, [id |-> nextId, doc |-> doc, by |-> r])]
       /\ nextId' = nextId + 1
       /\ ret' = [ret EXCEPT ![r] = [kind |-> "id", id |-> nextId]]
    \/ /\ ret' = [ret EXCEPT ![r] = [kind |-> "exc", id |-> 0]]
       /\ UNCHANGED <<store, nextId>>

---------------------------------------------------------------------------
(* Operations *)

\* A client posts a payload to one of the three endpoints.
Receive(r) ==
    /\ pc[r] = "idle"
    /\ \E e \in {"calculate", "lead", "demo"} :
         \E b \in Bodies(e) :
            /\ endpoint' = [endpoint EXCEPT ![r] = e]
            /\ body' = [body EXCEPT ![r] = b]
    /\ pc' = [pc EXCEPT ![r] = "received"]
    /\ UNCHANGED <<ret, transcript, resp, store, nextId, insertCalls, calcRuns>>

\* The framework builds the handler's argument from the payload: the handler
\* runs on a valid payload, the client gets 422 on any other.
Validate(r) ==
    /\ pc[r] = "received"
    /\ IF ValidBody(endpoint[r], body[r])
       THEN /\ pc' = [pc EXCEPT ![r] = "handler"]
            /\ UNCHANGED resp
       ELSE /\ pc' = [pc EXCEPT ![r] = "done"]
            /\ resp' = [resp EXCEPT ![r] = [NoResp EXCEPT !.code = 422]]
    /\ UNCHANGED <<endpoint, body, ret, transcript, store, nextId,
                   insertCalls, calcRuns>>

\* POST /api/calculate
calculate_revenue(r) ==
    /\ pc[r] = "handler"
    /\ endpoint[r] = "calculate"
    /\ \E res \in CalcResults(body[r]) :
         resp' = [resp EXCEPT ![r] =
                     [NoResp EXCEPT !.code = 200, !.result = Some(res)]]
    /\ calcRuns' = [calcRuns EXCEPT ![r] = @ + 1]
    /\ pc' = [pc EXCEPT ![r] = "done"]
    /\ UNCHANGED <<endpoint, body, ret, transcript, store, nextId, insertCalls>>

\* POST /api/lead, the call create_document("lead", lead)
create_lead_call(r) ==
    /\ pc[r] = "handler"
    /\ endpoint[r] = "lead"
    /\ create_document("lead", body[r], r)
    /\ insertCalls' = [insertCalls EXCEPT ![r] = @ + 1]
    /\ pc' = [pc EXCEPT ![r] = "called"]
    /\ UNCHANGED <<endpoint, body, transcript, resp, calcRuns>>

\* create_lead_return answering with the gateway's latest identifier, a
\* value shared by all requests, in place of its own call's result.
create_lead_return_last_id(r) ==
    /\ pc[r] = "called"
    /\ endpoint[r] = "lead"
    /\ ret[r].kind = "id"
    /\ resp' = [resp EXCEPT ![r] =
                   [NoResp EXCEPT !.code = 200, !.status = "ok",
                                  !.id = Some(nextId - 1)]]
    /\ pc' = [pc EXCEPT ![r] = "done"]
    /\ UNCHANGED <<endpoint, body, ret, transcript, store, nextId,
                   insertCalls, calcRuns>>

\* return {"status": "ok", "id": lead_id}
create_lead_return(r) ==
    /\ pc[r] = "called"
    /\ endpoint[r] = "lead"
    /\ ret[r].kind = "id"
    /\ resp' = [resp EXCEPT ![r] =
                   [NoResp EXCEPT !.code = 200, !.status = "ok",
                                  !.id = Some(ret[r].id)]]
    /\ pc' = [pc EXCEPT ![r] = "done"]
    /\ UNCHANGED <<endpoint, body, ret, transcript, store, nextId,
                   insertCalls, calcRuns>>

\* create_lead_except swallowing the error and answering ok.
create_lead_except_ok(r) ==
    /\ pc[r] = "called"
    /\ endpoint[r] = "lead"
    /\ ret[r].kind = "exc"
    /\ resp' = [resp EXCEPT ![r] =
                   [NoResp EXCEPT !.code = 200, !.status = "ok"]]
    /\ pc' = [pc EXCEPT ![r] = "done"]
    /\ UNCHANGED <<endpoint, body, ret, transcript, store, nextId,
                   insertCalls, calcRuns>>

\* except Exception as e: raise HTTPException(status_code=500, ...)
create_lead_except(r) ==
    /\ pc[r] = "called"
    /\ endpoint[r] = "lead"
    /\ ret[r].kind = "exc"
    /\ resp' = [resp EXCEPT ![r] = [NoResp EXCEPT !.code = 500]]
    /\ pc' = [pc EXCEPT ![r] = "done"]
    /\ UNCHANGED <<endpoint, body, ret, transcript, store, nextId,
                   insertCalls, calcRuns>>

\* create_demo_call with the transcript built ahead of the insert.
create_demo_call_script_first(r) ==
    /\ pc[r] = "handler"
    /\ endpoint[r] = "demo"
    /\ transcript' = [transcript EXCEPT ![r] = DemoTranscript(body[r])]
    /\ create_document("demorequest", body[r], r)
    /\ insertCalls' = [insertCalls EXCEPT ![r] = @ + 1]
    /\ pc' = [pc EXCEPT ![r] = "called"]
    /\ UNCHANGED <<endpoint, body, resp, calcRuns>>

\* POST /api/demo, the call create_document("demorequest", req)
create_demo_call(r) ==
    /\ pc[r] = "handler"
    /\ endpoint[r] = "demo"
    /\ create_document("demorequest", body[r], r)
    /\ insertCalls' = [insertCalls EXCEPT ![r] = @ + 1]
    /\ pc' = [pc EXCEPT ![r] = "called"]
    /\ UNCHANGED <<endpoint, body, transcript, resp, calcRuns>>

\* transcript = [...], reached when create_document returned
create_demo_transcript(r) ==
    /\ pc[r] = "called"
    /\ endpoint[r] = "demo"
    /\ ret[r].kind = "id"
    /\ transcript' = [transcript EXCEPT ![r] = DemoTranscript(body[r])]
    /\ pc' = [pc EXCEPT ![r] = "scripted"]
    /\ UNCHANGED <<endpoint, body, ret, resp, store, nextId, insertCalls,
                   calcRuns>>

\* return {"status": "ok", "id": demo_id, "transcript": transcript}
create_demo_return(r) ==
    /\ pc[r] = "scripted"
    /\ endpoint[r] = "demo"
    /\ resp' = [resp EXCEPT ![r] =
                   [NoResp EXCEPT !.code = 200, !.status = "ok",
                                  !.id = Some(ret[r].id),
                                  !.transcript = Some(transcript[r])]]
    /\ pc' = [pc EXCEPT ![r] = "done"]
    /\ UNCHANGED <<endpoint, body, ret, transcript, store, nextId,
                   insertCalls, calcRuns>>

\* create_demo_except calling create_document once more before giving up.
create_demo_except_retry(r) ==
    /\ pc[r] = "called"
    /\ endpoint[r] = "demo"
    /\ ret[r].kind = "exc"
    /\ IF insertCalls[r] < 2
       THEN /\ create_document("demorequest", body[r], r)
            /\ insertCalls' = [insertCalls EXCEPT ![r] = @ + 1]
            /\ UNCHANGED <<pc, resp>>
       ELSE /\ resp' = [resp EXCEPT ![r] = [NoResp EXCEPT !.code = 500]]
            /\ pc' = [pc EXCEPT ![r] = "done"]
            /\ UNCHANGED <<ret, store, nextId, insertCalls>>
    /\ UNCHANGED <<endpoint, body, transcript, calcRuns>>

\* except Exception as e: raise HTTPException(status_code=500, ...)
create_demo_except(r) ==
    /\ pc[r] = "called"
    /\ endpoint[r] = "demo"
    /\ ret[r].kind = "exc"
    /\ resp' = [resp EXCEPT ![r] = [NoResp EXCEPT !.code = 500]]
    /\ pc' = [pc EXCEPT ![r] = "done"]
    /\ UNCHANGED <<endpoint, body, ret, transcript, store, nextId,
                   insertCalls, calcRuns>>

Next ==
    \E r \in Reqs :
        \/ Receive(r)
        \/ Validate(r)
        \/ calculate_revenue(r)
        \/ create_lead_call(r)
        \/ create_lead_return(r)
        \/ create_lead_except(r)
        \/ create_demo_call(r)
        \/ create_demo_transcript(r)
        \/ create_demo_return(r)
        \/ create_demo_except(r)

Spec == Init /\ [][Next]_vars

NextCalc ==
    \E r \in Reqs :
        \/ Validate(r)
        \/ calculate_revenue(r)

SpecCalc == InitCalc /\ [][NextCalc]_vars

---------------------------------------------------------------------------
(* Properties *)

Done(r) == pc[r] = "done"
Persisting(r) == endpoint[r] \in {"lead", "demo"}

\* The positions of the documents request r put into collection coll.
RecordsBy(coll, r) ==
    { i \in 1..Len(store[coll]) : store[coll][i].by = r }
NoRecordBy(r) ==
    RecordsBy("lead", r) = {} /\ RecordsBy("demorequest", r) = {}
OneRecordBy(r) ==
    LET own   == IF endpoint[r] = "lead" THEN "lead" ELSE "demorequest"
        other == IF endpoint[r] = "lead" THEN "demorequest" ELSE "lead"
    IN  Cardinality(RecordsBy(own, r)) = 1 /\ RecordsBy(other, r) = {}

\* C1: a finished /api/lead or /api/demo request answered either ok, and
\* then it persisted exactly one record in its own collection, or 422 or
\* 500, and then it persisted nothing; a request rejected by validation
\* never called the gateway's insert.
C1_OkOneRecordElseNone ==
    \A r \in Reqs :
        (Done(r) /\ Persisting(r)) =>
            /\ resp[r].status = "ok" \/ resp[r].code \in {422, 500}
            /\ resp[r].status = "ok" => OneRecordBy(r)
            /\ resp[r].code \in {422, 500} =>
                   resp[r].status # "ok" /\ NoRecordBy(r)
            /\ resp[r].code = 422 => insertCalls[r] = 0

\* Both outcomes side by side: one request answered ok with its record
\* stored, another failed at the gateway with nothing stored.
C1_Witness ==
    \E r1, r2 \in Reqs :
        /\ Done(r1) /\ Persisting(r1) /\ resp[r1].status = "ok"
        /\ OneRecordBy(r1)
        /\ Done(r2) /\ Persisting(r2) /\ resp[r2].code = 500
        /\ NoRecordBy(r2)

\* C2: a handler calls the gateway's insert at most once; once the call is
\* made for a validated payload it has been made exactly once, whatever its
\* outcome; and a finished request whose call raised answered 500 with no
\* identifier, no transcript and no status "ok".
C2_InsertOnceNoRetry ==
    \A r \in Reqs :
        Persisting(r) =>
            /\ insertCalls[r] <= 1
            /\ pc[r] \in {"called", "scripted"} => insertCalls[r] = 1
            /\ (Done(r) /\ resp[r].code # 422) => insertCalls[r] = 1
            /\ (Done(r) /\ ret[r].kind = "exc") =>
                   /\ resp[r].code = 500
                   /\ resp[r].status # "ok"
                   /\ IsNone(resp[r].id)
                   /\ IsNone(resp[r].transcript)

\* A request whose single insert call raised and that answered 500.
C2_Witness ==
    \E r \in Reqs :
        /\ Done(r) /\ Persisting(r)
        /\ ret[r].kind = "exc"
        /\ insertCalls[r] = 1
        /\ resp[r].code = 500

InBounds(b) ==
    /\ ~IsNone(b.monthly_inquiries)
    /\ Val(b.monthly_inquiries) \in 0..10000
    /\ ~IsNone(b.connection_rate)
    /\ Val(b.connection_rate) \in 0..100
    /\ ~IsNone(b.close_rate)
    /\ Val(b.close_rate) \in 0..100
    /\ ~IsNone(b.lifetime_value)
    /\ Val(b.lifetime_value) \in 1..1000000

\* C3: a calculator payload is accepted (answered 200 with a result, the
\* calculator run once) exactly when all four fields are present with
\* monthly_inquiries in 0..10000, both rates in 0..100 and
\* 0 < lifetime_value <= 1000000; any other payload is answered 422 and the
\* calculator is not run.
C3_AcceptedIffInBounds ==
    \A r \in Reqs :
        /\ calcRuns[r] > 0 => InBounds(body[r])
        /\ (Done(r) /\ endpoint[r] = "calculate") =>
               IF InBounds(body[r])
               THEN /\ resp[r].code = 200
                    /\ ~IsNone(resp[r].result)
                    /\ calcRuns[r] = 1
               ELSE /\ resp[r].code = 422
                    /\ IsNone(resp[r].result)
                    /\ calcRuns[r] = 0

\* A payload whose only fault is lifetime_value = 0, rejected.
C3_Witness ==
    \E r \in Reqs :
        /\ Done(r) /\ endpoint[r] = "calculate"
        /\ InBounds([body[r] EXCEPT !.lifetime_value = Some(1)])
        /\ body[r].lifetime_value = Some(0)
        /\ resp[r].code = 422
        /\ calcRuns[r] = 0

\* C4: a Lead whose name, phone or source is the empty string, and a
\* DemoRequest whose name or phone is the empty string, is answered 422 and
\* never persisted; no stored record has an empty required field.
C4_EmptyStringsRejected ==
    /\ \A r \in Reqs :
          (/\ Done(r)
           /\ \/ /\ endpoint[r] = "lead"
                 /\ Some("") \in {body[r].name, body[r].phone, body[r].source}
              \/ /\ endpoint[r] = "demo"
                 /\ Some("") \in {body[r].name, body[r].phone})
          => resp[r].code = 422 /\ NoRecordBy(r)
    /\ \A i \in 1..Len(store.lead) :
          Some("") \notin {store.lead[i].doc.name, store.lead[i].doc.phone,
                           store.lead[i].doc.source}
    /\ \A i \in 1..Len(store.demorequest) :
          Some("") \notin {store.demorequest[i].doc.name,
                           store.demorequest[i].doc.phone}

Answered(r) == Done(r) /\ endpoint[r] = "calculate" /\ resp[r].code = 200
Result(r) == Val(resp[r].result)

\* C5: for every valid calculator input the returned smart connection rate
\* is at most 95 and the smart close rate at most 85, and each is at least
\* the corresponding input rate.
C5_SmartRatesBounded ==
    \A r \in Reqs :
        Answered(r) =>
            /\ Result(r).assumptions.smart_connection_rate <= 95
            /\ Result(r).assumptions.smart_close_rate <= 85
            /\ Result(r).assumptions.smart_connection_rate
                   >= Val(body[r].connection_rate)
            /\ Result(r).assumptions.smart_close_rate
                   >= Val(body[r].close_rate)

\* C6: for every valid calculator input the returned lift_revenue differs
\* from the returned smart_revenue minus the returned current_revenue by at
\* most one hundredth.
C6_LiftWithinRounding ==
    \A r \in Reqs :
        Answered(r) =>
            LET d == BigSub(Result(r).smart_revenue, Result(r).current_revenue)
            IN  /\ BigLeq(BigSub(d, Big(1)), Result(r).lift_revenue)
                /\ BigLeq(Result(r).lift_revenue, BigAdd(d, Big(1)))

\* An answer whose lift_revenue is not the difference of the two returned
\* revenues: the hundredth of slack is used.
C6_Witness ==
    \E r \in Reqs :
        /\ Answered(r)
        /\ Result(r).lift_revenue
               # BigSub(Result(r).smart_revenue, Result(r).current_revenue)

\* C7: every successful /api/demo answer carries a transcript of exactly
\* four turns with roles visitor, ai, visitor, ai; the first text is the
\* request's sample_intent when present and non-empty and the fallback
\* literal otherwise; the other three texts are fixed literals.
C7_TranscriptShape ==
    \A r \in Reqs :
        (Done(r) /\ endpoint[r] = "demo" /\ resp[r].code = 200) =>
            /\ ~IsNone(resp[r].transcript)
            /\ LET t  == Val(resp[r].transcript)
                   si == body[r].sample_intent
               IN  /\ Len(t) = 4
                   /\ <<t[1].role, t[2].role, t[3].role, t[4].role>>
                          = <<"visitor", "ai", "visitor", "ai">>
                   /\ t[1].text = IF si = None \/ si = Some("")
                                  THEN "Hi! I'm looking for a quote."
                                  ELSE Val(si)
                   /\ t[2].text = "You're in the right place! I can help with that. May I have your address and a good time for an estimate?"
                   /\ t[3].text = "Tomorrow afternoon works. 123 Main St."
                   /\ t[4].text = "Great. I've penciled you in for 2:30 PM. You'll get a confirmation by text. Anything else I can answer now?"

\* A successful demo whose sample_intent is the empty string and whose first
\* turn is the fallback, beside one whose first turn is its own intent.
C7_Witness ==
    \E r1, r2 \in Reqs :
        /\ Done(r1) /\ endpoint[r1] = "demo" /\ resp[r1].code = 200
        /\ body[r1].sample_intent = Some("")
        /\ Val(resp[r1].transcript)[1].text = "Hi! I'm looking for a quote."
        /\ Done(r2) /\ endpoint[r2] = "demo" /\ resp[r2].code = 200
        /\ Val(resp[r2].transcript)[1].text = "roofing quote"

\* C8: in /api/demo a transcript exists only once the request's own insert
\* has returned an identifier; when the insert raised no transcript is ever
\* built and the answer carries neither identifier nor transcript; an answer
\* with a transcript carries the identifier that insert returned.
C8_TranscriptAfterInsert ==
    \A r \in Reqs :
        endpoint[r] = "demo" =>
            /\ transcript[r] # <<>> =>
                   /\ ret[r].kind = "id"
                   /\ insertCalls[r] = 1
            /\ ret[r].kind = "exc" =>
                   /\ transcript[r] = <<>>
                   /\ IsNone(resp[r].id)
                   /\ IsNone(resp[r].transcript)
            /\ ~IsNone(resp[r].transcript) =>
                   /\ ret[r].kind = "id"
                   /\ insertCalls[r] = 1
                   /\ resp[r].id = Some(ret[r].id)

\* A demo request whose insert raised, finished with 500 and no transcript
\* built.
C8_Witness ==
    \E r \in Reqs :
        /\ Done(r) /\ endpoint[r] = "demo"
        /\ ret[r].kind = "exc"
        /\ transcript[r] = <<>>
        /\ resp[r].code = 500

\* The one answer a lead or demo request can get, from its own payload and
\* the outcome of its own insert.
OwnAnswer(r) ==
    IF ~ValidBody(endpoint[r], body[r])
    THEN [NoResp EXCEPT !.code = 422]
    ELSE IF ret[r].kind = "exc"
    THEN [NoResp EXCEPT !.code = 500]
    ELSE [NoResp EXCEPT !.code = 200, !.status = "ok",
                        !.id = Some(ret[r].id),
                        !.transcript = IF endpoint[r] = "demo"
                                       THEN Some(DemoTranscript(body[r]))
                                       ELSE None]

\* C9: under every interleaving, a finished request's answer is determined
\* by its own payload and the outcome of its own insert, and every stored
\* record holds the payload and the identifier of the one request that
\* inserted it, whatever the other requests did.
C9_NoInterference ==
    /\ \A r \in Reqs :
          Done(r) =>
              IF endpoint[r] = "calculate"
              THEN IF ValidCalcInput(body[r])
                   THEN /\ resp[r].code = 200
                        /\ Result(r) \in CalcResults(body[r])
                   ELSE resp[r] = [NoResp EXCEPT !.code = 422]
              ELSE resp[r] = OwnAnswer(r)
    /\ \A coll \in {"lead", "demorequest"} :
          \A i \in 1..Len(store[coll]) :
              LET d == store[coll][i]
              IN  /\ Persisting(d.by)
                  /\ coll = Collection(endpoint[d.by])
                  /\ d.doc = body[d.by]
                  /\ ret[d.by] = [kind |-> "id", id |-> d.id]
                  /\ \A j \in 1..Len(store[coll]) :
                         store[coll][j].by = d.by => j = i

\* Two lead requests in flight together: one has answered ok with its own
\* identifier while the other, whose insert came later, has not answered.
C9_Witness ==
    \E r1, r2 \in Reqs :
        /\ r1 # r2
        /\ endpoint[r1] = "lead" /\ endpoint[r2] = "lead"
        /\ Done(r1) /\ resp[r1].status = "ok"
        /\ ret[r2].kind = "id" /\ ret[r2].id > ret[r1].id
        /\ resp[r1].id = Some(ret[r1].id)
        /\ pc[r2] = "called"

\* C10: for every valid calculator input the smart projection is at least
\* the current one (connected, closed and revenue) and the returned
\* lift_revenue is not negative.
C10_LiftNonNegative ==
    \A r \in Reqs :
        Answered(r) =>
            /\ BigLeq(Result(r).current_connected, Result(r).smart_connected)
            /\ BigLeq(Result(r).current_closed, Result(r).smart_closed)
            /\ BigLeq(Result(r).current_revenue, Result(r).smart_revenue)
            /\ BigLeq(Big(0), Result(r).lift_revenue)

===========================================================================
